---- MODULE Spec2Model ----
(***************************************************************************)
(* The heart-risk Streamlit script (src/app.py) as a state machine.  One   *)
(* process serves a sequence of script runs.  Each run calls the cached    *)
(* asset loader, checks the three artifacts, renders the eleven widgets,   *)
(* and, when "Analyze Risk" was clicked, encodes the form into a one-row   *)
(* table aligned to expected_columns, scales it, asks the model for a      *)
(* label and a probability, and displays the result.                       *)
(*                                                                         *)
(* Conventions: Python None is <<>> and an object x is <<x>>; a dict is a  *)
(* sequence of <<key, value>> pairs in insertion order; Oldpeak is held in *)
(* tenths (1.0 is 10); a probability is a number of votes out of           *)
(* ProbSteps.                                                              *)
(***************************************************************************)
EXTENDS Integers, Sequences, FiniteSets, TLC

VARIABLES
    disk,             \* the artifact files: which exist, and columns.pkl's list
    cache,            \* st.cache_data's entry for load_assets: <<>> or <<result>>
    pc,               \* position of the current script run
    files_read,       \* joblib.load calls made by this run's load_assets call
    model, scaler, expected_columns,   \* line 103
    form,             \* the eleven widget values of this run (lines 128-143)
    raw_input,        \* line 151-156
    input_df,         \* line 158
    scaled_input,     \* line 159
    prediction,       \* line 160
    probability,      \* line 161
    screen,           \* what this run has rendered
    baseline          \* history: the first default-form submission's columns and
                      \* row, and whether another form was submitted since

vars == <<disk, cache, pc, files_read, model, scaler, expected_columns, form,
          raw_input, input_df, scaled_input, prediction, probability, screen,
          baseline>>

---------------------------------------------------------------------------
(* Bounds of the model. *)

\* how many of the candidate columns.pkl contents are considered
NumColumnFiles == 5
\* numeric widgets take the samples 0..MaxSample of their range
MaxSample == 1
\* the model's labels are 0..MaxLabel
MaxLabel == 2
\* predict_proba returns votes/ProbSteps, votes in 0..ProbSteps
ProbSteps == 2

---------------------------------------------------------------------------
(* Widget ranges and defaults. *)

AgeMin == 18
AgeMax == 100
AgeDefault == 40
RestingBPMin == 80
RestingBPMax == 200
RestingBPDefault == 120
CholesterolMin == 100
CholesterolMax == 600
CholesterolDefault == 200
MaxHRMin == 60
MaxHRMax == 220
MaxHRDefault == 150
OldpeakMin == 0
OldpeakMax == 62
OldpeakDefault == 10

SexOptions == <<"M", "F">>
ChestPainOptions == <<"ATA", "NAP", "TA", "ASY">>
FastingBSOptions == <<0, 1>>
RestingECGOptions == <<"Normal", "ST", "LVH">>
ExerciseAnginaOptions == <<"N", "Y">>
STSlopeOptions == <<"Up", "Flat", "Down">>

Range(s) == {s[i] : i \in 1..Len(s)}

\* The s-th sample of a numeric widget: its default, then its lowest and
\* highest values, then the values next to those.
Sample(lo, hi, default, s) ==
    IF s = 0 THEN default
    ELSE IF s % 2 = 1 THEN lo + (s \div 2)
    ELSE hi - ((s - 2) \div 2)

\* The values the user can leave in the eleven widgets.
Forms ==
    { [age |-> Sample(AgeMin, AgeMax, AgeDefault, s),
       sex |-> sx,
       chest_pain |-> cp,
       resting_bp |-> Sample(RestingBPMin, RestingBPMax, RestingBPDefault, s),
       cholesterol |-> Sample(CholesterolMin, CholesterolMax, CholesterolDefault, s),
       fasting_bs |-> FastingBSOptions[(s % 2) + 1],
       resting_ecg |-> ecg,
       max_hr |-> Sample(MaxHRMin, MaxHRMax, MaxHRDefault, s),
       exercise_angina |-> ang,
       oldpeak |-> Sample(OldpeakMin, OldpeakMax, OldpeakDefault, s),
       st_slope |-> sl] :
      s \in 0..MaxSample, sx \in Range(SexOptions), cp \in Range(ChestPainOptions),
      ecg \in Range(RestingECGOptions), ang \in Range(ExerciseAnginaOptions),
      sl \in Range(STSlopeOptions) }

\* Every widget at its initial value (a selectbox starts at its first option).
DefaultForm ==
    [age |-> AgeDefault, sex |-> SexOptions[1], chest_pain |-> ChestPainOptions[1],
     resting_bp |-> RestingBPDefault, cholesterol |-> CholesterolDefault,
     fasting_bs |-> FastingBSOptions[1], resting_ecg |-> RestingECGOptions[1],
     max_hr |-> MaxHRDefault, exercise_angina |-> ExerciseAnginaOptions[1],
     oldpeak |-> OldpeakDefault, st_slope |-> STSlopeOptions[1]]

\* The forms that differ from the default form in at most one selectbox.
NearDefaultForms ==
    { f \in Forms :
        /\ f.age = AgeDefault /\ f.resting_bp = RestingBPDefault
        /\ f.cholesterol = CholesterolDefault /\ f.fasting_bs = FastingBSOptions[1]
        /\ f.max_hr = MaxHRDefault /\ f.oldpeak = OldpeakDefault
        /\ Cardinality({k \in {"sex", "chest_pain", "resting_ecg", "exercise_angina",
                                 "st_slope"} : f[k] # DefaultForm[k]}) <= 1 }

---------------------------------------------------------------------------
(* The artifact files. *)

None == <<>>
Some(x) == <<x>>

Files == <<"KNN_heart.pkl", "scaler.pkl", "columns.pkl">>

\* Candidate contents of columns.pkl: the full one-hot schema in training
\* order, the schema with each field's first category dropped, a schema
\* without the Oldpeak column and with the target column left in, the full
\* schema with the indicators first, an empty list, and a short list that
\* repeats a column.
ColumnFiles ==
    << <<"Age", "RestingBP", "Cholesterol", "FastingBS", "MaxHR", "Oldpeak",
         "Sex_F", "Sex_M",
         "ChestPainType_ASY", "ChestPainType_ATA", "ChestPainType_NAP", "ChestPainType_TA",
         "RestingECG_LVH", "RestingECG_Normal", "RestingECG_ST",
         "ExerciseAngina_N", "ExerciseAngina_Y",
         "ST_Slope_Down", "ST_Slope_Flat", "ST_Slope_Up">>,
       <<"Age", "RestingBP", "Cholesterol", "FastingBS", "MaxHR", "Oldpeak",
         "Sex_M",
         "ChestPainType_ATA", "ChestPainType_NAP", "ChestPainType_TA",
         "RestingECG_Normal", "RestingECG_ST",
         "ExerciseAngina_Y",
         "ST_Slope_Flat", "ST_Slope_Up">>,
       <<"Age", "RestingBP", "Cholesterol", "FastingBS", "MaxHR",
         "Sex_F", "Sex_M",
         "ChestPainType_ASY", "ChestPainType_ATA", "ChestPainType_NAP",
         "RestingECG_Normal", "RestingECG_ST",
         "ExerciseAngina_N", "ExerciseAngina_Y",
         "ST_Slope_Flat", "ST_Slope_Up", "HeartDisease">>,
       <<"ST_Slope_Up", "ST_Slope_Flat", "ST_Slope_Down",
         "ExerciseAngina_Y", "ExerciseAngina_N",
         "RestingECG_ST", "RestingECG_Normal", "RestingECG_LVH",
         "ChestPainType_TA", "ChestPainType_NAP", "ChestPainType_ATA", "ChestPainType_ASY",
         "Sex_M", "Sex_F",
         "Oldpeak", "MaxHR", "FastingBS", "Cholesterol", "RestingBP", "Age">>,
       <<>>,
       <<"Age", "Sex_M", "Age", "ChestPainType_ASY", "Sex_M">> >>

ColumnLists ==
    {ColumnFiles[i] : i \in 1..(IF NumColumnFiles < Len(ColumnFiles)
                                 THEN NumColumnFiles ELSE Len(ColumnFiles))}

\* A disk: the files that exist, and the list that columns.pkl holds whenever
\* it exists.
Disks == [present : SUBSET Range(Files), columns : ColumnLists]

\* joblib.load(name): the object stored in the file.
Stored(d, name) ==
    IF name = Files[1] THEN "KNN"
    ELSE IF name = Files[2] THEN "Scaler"
    ELSE d.columns

\* The files load_assets opens, in order, up to and including the first one
\* that raises FileNotFoundError.
RECURSIVE Opened(_, _)
Opened(d, i) ==
    IF i > Len(Files) THEN <<>>
    ELSE IF Files[i] \notin d.present THEN <<Files[i]>>
    ELSE <<Files[i]>> \o Opened(d, i + 1)

Unavailable == [model |-> None, scaler |-> None, expected_columns |-> None]

\* load_assets without its except branch's "all three or none": whatever was
\* loaded before the missing file is returned.
load_assets_partial(d) ==
    [model |-> IF Files[1] \in d.present THEN Some(Stored(d, Files[1])) ELSE None,
     scaler |-> IF {Files[1], Files[2]} \subseteq d.present
                THEN Some(Stored(d, Files[2])) ELSE None,
     expected_columns |-> IF Range(Files) \subseteq d.present
                          THEN Some(Stored(d, Files[3])) ELSE None]

\* The body of load_assets on disk d: the three objects, or the three Nones
\* of the except branch when one of the opened files does not exist.
load_assets(d) ==
    IF \E i \in 1..Len(Opened(d, 1)) : Opened(d, 1)[i] \notin d.present
    THEN Unavailable
    ELSE [model |-> Some(Stored(d, Files[1])),
          scaler |-> Some(Stored(d, Files[2])),
          expected_columns |-> Some(Stored(d, Files[3]))]

\* all([model, scaler, expected_columns]): None is false, an estimator object
\* is true, and a list is true unless it is empty.
AllAssets(m, sc, cols) ==
    /\ m # None
    /\ sc # None
    /\ cols # None /\ Len(cols[1]) > 0

---------------------------------------------------------------------------
(* Dictionaries in insertion order, and the encoder. *)

Keys(d) == [i \in 1..Len(d) |-> d[i][1]]
HasKey(d, k) == \E i \in 1..Len(d) : d[i][1] = k
Get(d, k) == d[CHOOSE i \in 1..Len(d) : d[i][1] = k][2]

\* d[k] = v: an existing key keeps its position, a new key goes last.
Put(d, k, v) ==
    IF HasKey(d, k)
    THEN [i \in 1..Len(d) |-> IF d[i][1] = k THEN <<k, v>> ELSE d[i]]
    ELSE Append(d, <<k, v>>)

\* d.update(pairs)
RECURSIVE Update(_, _)
Update(d, pairs) ==
    IF pairs = <<>> THEN d
    ELSE Update(Put(d, Head(pairs)[1], Head(pairs)[2]), Tail(pairs))

\* {col: 0 for col in cols}
ZeroDict(cols) == Update(<<>>, [i \in 1..Len(cols) |-> <<cols[i], 0>>])

\* The dict literal with the values of RestingBP and Cholesterol exchanged.
OverridesSwapped(f) ==
    << <<"Age", f.age>>, <<"RestingBP", f.cholesterol>>,
       <<"Cholesterol", f.resting_bp>>, <<"FastingBS", f.fasting_bs>>,
       <<"MaxHR", f.max_hr>>, <<"Oldpeak", f.oldpeak>>,
       <<"Sex_" \o f.sex, 1>>, <<"ChestPainType_" \o f.chest_pain, 1>>,
       <<"RestingECG_" \o f.resting_ecg, 1>>,
       <<"ExerciseAngina_" \o f.exercise_angina, 1>>,
       <<"ST_Slope_" \o f.st_slope, 1>> >>

\* The dict literal handed to raw_input.update.
Overrides(f) ==
    << <<"Age", f.age>>, <<"RestingBP", f.resting_bp>>,
       <<"Cholesterol", f.cholesterol>>, <<"FastingBS", f.fasting_bs>>,
       <<"MaxHR", f.max_hr>>, <<"Oldpeak", f.oldpeak>>,
       <<"Sex_" \o f.sex, 1>>, <<"ChestPainType_" \o f.chest_pain, 1>>,
       <<"RestingECG_" \o f.resting_ecg, 1>>,
       <<"ExerciseAngina_" \o f.exercise_angina, 1>>,
       <<"ST_Slope_" \o f.st_slope, 1>> >>

\* raw_input after lines 151-156.
RawInput(cols, f) == Update(ZeroDict(cols), Overrides(f))

\* A selection that also rejects a row with a key that is no expected column.
SelectRaisesStrict(raw, cols) ==
    \/ \E i \in 1..Len(cols) : ~HasKey(raw, cols[i])
    \/ \E j \in 1..Len(raw) : raw[j][1] \notin Range(cols)

\* pd.DataFrame([raw])[cols] raises KeyError when a name of cols is no column.
SelectRaises(raw, cols) == \E i \in 1..Len(cols) : ~HasKey(raw, cols[i])

\* pd.DataFrame([raw]) without the selection: the table has the dict's keys.
SelectColumnsAll(raw, cols) ==
    [columns |-> Keys(raw), values |-> [i \in 1..Len(raw) |-> raw[i][2]]]

\* pd.DataFrame([raw])[cols]: the columns cols, in that order, of the one row.
SelectColumns(raw, cols) ==
    [columns |-> cols, values |-> [i \in 1..Len(cols) |-> Get(raw, cols[i])]]

---------------------------------------------------------------------------
(* Result display. *)

\* f"{p:.2%}" of p = votes/ProbSteps, in hundredths of a percent.
FormatPercent(votes) == (20000 * votes + ProbSteps) \div (2 * ProbSteps)

\* A finding taken from the probability instead of the label.
FindingByProbability(label) ==
    IF 2 * probability[1] >= ProbSteps THEN "High Risk" ELSE "Low Risk"

\* Lines 169-172: the finding shown for a label.
Finding(label) == IF label = 1 THEN "High Risk" ELSE "Low Risk"

\* The gauge step a value of probability * 100 falls in: [0, 50] is green,
\* [50, 100] is red, and 50 itself is on the break.
GaugeSide(votes) ==
    IF 2 * votes < ProbSteps THEN "green"
    ELSE IF 2 * votes > ProbSteps THEN "red"
    ELSE "midpoint"

BlankScreen ==
    [error |-> FALSE, form |-> FALSE, exception |-> FALSE,
     finding |-> None, probability_text |-> None, gauge |-> None]

---------------------------------------------------------------------------
(* The script. *)

\* A run's variables before the script has assigned them.
FreshRun ==
    /\ files_read = <<>> /\ model = None /\ scaler = None
    /\ expected_columns = None /\ form = None /\ raw_input = None
    /\ input_df = None /\ scaled_input = None /\ prediction = None
    /\ probability = None /\ screen = BlankScreen

Init ==
    /\ disk \in Disks
    /\ cache = None
    /\ pc = "start"
    /\ FreshRun
    /\ baseline = None

\* Between two runs somebody removes or restores artifact files.
DiskChange ==
    /\ pc = "start"
    /\ \E p \in SUBSET Range(Files) :
          /\ p # disk.present
          /\ disk' = [disk EXCEPT !.present = p]
    /\ UNCHANGED <<cache, pc, files_read, model, scaler, expected_columns, form,
                   raw_input, input_df, scaled_input, prediction, probability,
                   screen, baseline>>

\* load_assets without @st.cache_data: the body runs in every script run.
LoadAssetsUncached ==
    /\ pc = "start"
    /\ LET result == load_assets(disk)
       IN /\ files_read' = Opened(disk, 1)
          /\ cache' = Some(result)
          /\ model' = result.model
          /\ scaler' = result.scaler
          /\ expected_columns' = result.expected_columns
    /\ pc' = "check"
    /\ UNCHANGED <<disk, form, raw_input, input_df, scaled_input, prediction,
                   probability, screen, baseline>>

\* Line 103: the cached call.  The body runs, and its result is stored, only
\* when the cache holds no entry.
LoadAssets ==
    /\ pc = "start"
    /\ LET hit == cache # None
           result == IF hit THEN cache[1] ELSE load_assets(disk)
       IN /\ files_read' = IF hit THEN <<>> ELSE Opened(disk, 1)
          /\ cache' = Some(result)
          /\ model' = result.model
          /\ scaler' = result.scaler
          /\ expected_columns' = result.expected_columns
    /\ pc' = "check"
    /\ UNCHANGED <<disk, form, raw_input, input_df, scaled_input, prediction,
                   probability, screen, baseline>>

\* Lines 105-107: st.error and st.stop.
StopMissing ==
    /\ pc = "check"
    /\ ~AllAssets(model, scaler, expected_columns)
    /\ screen' = [screen EXCEPT !.error = TRUE]
    /\ pc' = "stopped"
    /\ UNCHANGED <<disk, cache, files_read, model, scaler, expected_columns, form,
                   raw_input, input_df, scaled_input, prediction, probability,
                   baseline>>

\* Lines 111-143: sidebar, header and the eleven widgets with the values the
\* user left in them, one of choices.
RenderForm(choices) ==
    /\ pc = "check"
    /\ AllAssets(model, scaler, expected_columns)
    /\ \E f \in choices : form' = Some(f)
    /\ screen' = [screen EXCEPT !.form = TRUE]
    /\ pc' = "button"
    /\ UNCHANGED <<disk, cache, files_read, model, scaler, expected_columns,
                   raw_input, input_df, scaled_input, prediction, probability,
                   baseline>>

InputForm == RenderForm(Forms)

\* The same step for a user who moves at most one selectbox away from its
\* initial option and leaves the numeric widgets alone.
InputFormNearDefault == RenderForm(NearDefaultForms)

\* Line 147, the run was not started by the button: the script ends.
NoClick ==
    /\ pc = "button"
    /\ pc' = "done"
    /\ UNCHANGED <<disk, cache, files_read, model, scaler, expected_columns, form,
                   raw_input, input_df, scaled_input, prediction, probability,
                   screen, baseline>>

\* An encoder whose dict outlives the run: raw_input is not rebuilt from zeros
\* but updated in place in an object kept beside the cached assets.
EncodeStale ==
    /\ pc = "button"
    /\ raw_input' =
         Some(Update(IF "raw" \in DOMAIN cache[1] THEN cache[1].raw
                     ELSE ZeroDict(expected_columns[1]),
                     Overrides(form[1])))
    /\ cache' = Some([model |-> cache[1].model, scaler |-> cache[1].scaler,
                      expected_columns |-> cache[1].expected_columns,
                      raw |-> raw_input'[1]])
    /\ IF SelectRaises(raw_input'[1], expected_columns[1])
       THEN /\ pc' = "failed"
            /\ screen' = [screen EXCEPT !.exception = TRUE]
            /\ UNCHANGED <<input_df, baseline>>
       ELSE /\ pc' = "encoded"
            /\ input_df' = Some(SelectColumns(raw_input'[1], expected_columns[1]))
            /\ baseline' =
                 IF baseline = None
                 THEN IF form[1] = DefaultForm
                      THEN Some([columns |-> expected_columns[1], row |-> input_df'[1],
                                 others |-> FALSE])
                      ELSE None
                 ELSE IF form[1] = DefaultForm
                      THEN baseline
                      ELSE Some([baseline[1] EXCEPT !.others = TRUE])
            /\ UNCHANGED screen
    /\ UNCHANGED <<disk, files_read, model, scaler, expected_columns, form,
                   scaled_input, prediction, probability>>

\* Lines 147-158, the button was clicked: the delay, raw_input and input_df.
Encode ==
    /\ pc = "button"
    /\ raw_input' = Some(RawInput(expected_columns[1], form[1]))
    /\ IF SelectRaises(raw_input'[1], expected_columns[1])
       THEN /\ pc' = "failed"
            /\ screen' = [screen EXCEPT !.exception = TRUE]
            /\ UNCHANGED <<input_df, baseline>>
       ELSE /\ pc' = "encoded"
            /\ input_df' = Some(SelectColumns(raw_input'[1], expected_columns[1]))
            /\ baseline' =
                 IF baseline = None
                 THEN IF form[1] = DefaultForm
                      THEN Some([columns |-> expected_columns[1], row |-> input_df'[1],
                                 others |-> FALSE])
                      ELSE None
                 ELSE IF form[1] = DefaultForm
                      THEN baseline
                      ELSE Some([baseline[1] EXCEPT !.others = TRUE])
            /\ UNCHANGED screen
    /\ UNCHANGED <<disk, cache, files_read, model, scaler, expected_columns, form,
                   scaled_input, prediction, probability>>

\* An exception leaves the script: Streamlit shows it and the run is over.
Raise ==
    /\ pc' = "failed"
    /\ screen' = [screen EXCEPT !.exception = TRUE]

\* scaler.transform inside a try block that swallows the exception.
ScaleSwallow ==
    /\ pc = "encoded"
    /\ \/ scaled_input' = Some([scaler |-> scaler[1], n |-> Len(input_df[1].values)])
       \/ UNCHANGED scaled_input
    /\ pc' = "scaled"
    /\ UNCHANGED <<disk, cache, files_read, model, scaler, expected_columns, form,
                   raw_input, input_df, prediction, probability, screen, baseline>>

\* Line 159: scaler.transform(input_df) returns the scaled row or raises.
Scale ==
    /\ pc = "encoded"
    /\ \/ /\ scaled_input' = Some([scaler |-> scaler[1], n |-> Len(input_df[1].values)])
          /\ pc' = "scaled"
          /\ UNCHANGED screen
       \/ /\ Raise
          /\ UNCHANGED scaled_input
    /\ UNCHANGED <<disk, cache, files_read, model, scaler, expected_columns, form,
                   raw_input, input_df, prediction, probability, baseline>>

\* Line 160: model.predict(scaled_input)[0] is a label or the call raises.
Predict ==
    /\ pc = "scaled"
    /\ \/ /\ \E label \in 0..MaxLabel : prediction' = Some(label)
          /\ pc' = "predicted"
          /\ UNCHANGED screen
       \/ /\ Raise
          /\ UNCHANGED prediction
    /\ UNCHANGED <<disk, cache, files_read, model, scaler, expected_columns, form,
                   raw_input, input_df, scaled_input, probability, baseline>>

\* Line 161: model.predict_proba(scaled_input)[0][1] is a probability or the
\* call raises.
PredictProba ==
    /\ pc = "predicted"
    /\ \/ /\ \E votes \in 0..ProbSteps : probability' = Some(votes)
          /\ pc' = "scored"
          /\ UNCHANGED screen
       \/ /\ Raise
          /\ UNCHANGED probability
    /\ UNCHANGED <<disk, cache, files_read, model, scaler, expected_columns, form,
                   raw_input, input_df, scaled_input, prediction, baseline>>

\* Lines 164-198: the finding, the probability sentence and the gauge.
DisplayResults ==
    /\ pc = "scored"
    /\ screen' = [screen EXCEPT
                    !.finding = Some(Finding(prediction[1])),
                    !.probability_text = Some(FormatPercent(probability[1])),
                    !.gauge = Some(GaugeSide(probability[1]))]
    /\ pc' = "done"
    /\ UNCHANGED <<disk, cache, files_read, model, scaler, expected_columns, form,
                   raw_input, input_df, scaled_input, prediction, probability,
                   baseline>>

\* The next interaction reruns the script from the top in a fresh namespace;
\* only the cache outlives the run.
Rerun ==
    /\ pc \in {"stopped", "done", "failed"}
    /\ pc' = "start"
    /\ files_read' = <<>> /\ model' = None /\ scaler' = None
    /\ expected_columns' = None /\ form' = None /\ raw_input' = None
    /\ input_df' = None /\ scaled_input' = None /\ prediction' = None
    /\ probability' = None /\ screen' = BlankScreen
    /\ UNCHANGED <<disk, cache, baseline>>

Next ==
    \/ DiskChange
    \/ LoadAssets
    \/ StopMissing
    \/ InputForm
    \/ NoClick
    \/ Encode
    \/ Scale
    \/ Predict
    \/ PredictProba
    \/ DisplayResults
    \/ Rerun

Spec == Init /\ [][Next]_vars

\* The same script driven by a user who resubmits forms near the default.
NextResubmit ==
    \/ DiskChange
    \/ LoadAssets
    \/ StopMissing
    \/ InputFormNearDefault
    \/ NoClick
    \/ Encode
    \/ Scale
    \/ Predict
    \/ PredictProba
    \/ DisplayResults
    \/ Rerun

SpecResubmit == Init /\ [][NextResubmit]_vars

---------------------------------------------------------------------------
(* Vocabulary of the properties. *)

AllFiles == Range(Files)
Encoded == input_df # None
Columns == input_df[1].columns
Values == input_df[1].values
Cols(i) == ColumnFiles[i]

\* The five categorical fields: widget, prefix of its indicator columns, options.
OneHotFields ==
    << [key |-> "sex", prefix |-> "Sex_", options |-> SexOptions],
       [key |-> "chest_pain", prefix |-> "ChestPainType_", options |-> ChestPainOptions],
       [key |-> "resting_ecg", prefix |-> "RestingECG_", options |-> RestingECGOptions],
       [key |-> "exercise_angina", prefix |-> "ExerciseAngina_",
        options |-> ExerciseAnginaOptions],
       [key |-> "st_slope", prefix |-> "ST_Slope_", options |-> STSlopeOptions] >>

\* The indicator column of the category selected in field fld of form f.
SelectedColumn(fld, f) == fld.prefix \o f[fld.key]
\* All indicator columns of field fld.
FieldColumns(fld) == {fld.prefix \o fld.options[i] : i \in 1..Len(fld.options)}
\* The positions of the row that hold a column of the set names.
Positions(names) == {i \in 1..Len(Columns) : Columns[i] \in names}

\* The value the specification gives column name for form f.
ExpectedValue(f, name) ==
    CASE name = "Age" -> f.age
      [] name = "RestingBP" -> f.resting_bp
      [] name = "Cholesterol" -> f.cholesterol
      [] name = "FastingBS" -> f.fasting_bs
      [] name = "MaxHR" -> f.max_hr
      [] name = "Oldpeak" -> f.oldpeak
      [] OTHER ->
           IF \E k \in 1..Len(OneHotFields) : name = SelectedColumn(OneHotFields[k], f)
           THEN 1 ELSE 0

\* The scenario of the specification, Oldpeak 1.0 in tenths.
ScenarioForm ==
    [age |-> 40, sex |-> "M", chest_pain |-> "ATA", resting_bp |-> 120,
     cholesterol |-> 200, fasting_bs |-> 0, resting_ecg |-> "Normal",
     max_hr |-> 150, exercise_angina |-> "N", oldpeak |-> 10, st_slope |-> "Up"]

ScenarioValue(name) ==
    CASE name = "Age" -> 40
      [] name = "RestingBP" -> 120
      [] name = "Cholesterol" -> 200
      [] name = "FastingBS" -> 0
      [] name = "MaxHR" -> 150
      [] name = "Oldpeak" -> 10
      [] name \in {"Sex_M", "ChestPainType_ATA", "RestingECG_Normal",
                   "ExerciseAngina_N", "ST_Slope_Up"} -> 1
      [] OTHER -> 0

---------------------------------------------------------------------------
(* C1 *)

\* C1: whatever the form and whatever list was loaded, the one-row table
\* handed to the scaler has exactly the expected columns, in their order, with
\* one value per column.
C1_ColumnsAreExpected ==
    Encoded =>
        /\ Columns = expected_columns[1]
        /\ Len(Values) = Len(expected_columns[1])

\* The scaler has taken a row although raw_input held a key (Sex_F) that is
\* no expected column.
C1_Witness ==
    /\ pc = "scaled"
    /\ expected_columns = Some(Cols(2))
    /\ form[1].sex = "F"
    /\ Keys(raw_input[1]) # expected_columns[1]
    /\ Columns = Cols(2)

---------------------------------------------------------------------------
(* C2 *)

\* C2: in the encoded row every categorical field has exactly one indicator
\* column equal to 1, the column of the selected category, and all its other
\* indicator columns are 0.
C2_ExactlyOneIndicator ==
    Encoded =>
        \A k \in 1..Len(OneHotFields) :
            LET fld == OneHotFields[k]
                ones == {i \in Positions(FieldColumns(fld)) : Values[i] = 1}
            IN /\ Cardinality(ones) = 1
               /\ \A i \in ones : Columns[i] = SelectedColumn(fld, form[1])
               /\ \A i \in Positions(FieldColumns(fld)) \ ones : Values[i] = 0

---------------------------------------------------------------------------
(* C3 *)

\* C3: when the body of load_assets ran in this script run and one of the
\* three files was missing, the loader returned (and cached) the three Nones,
\* no exception was shown, and the run is at the asset check or stopped behind
\* the error message: no form, no encoding, no scaling, no prediction.
C3_MissingFileStops ==
    (files_read # <<>> /\ disk.present # AllFiles) =>
        /\ model = None /\ scaler = None /\ expected_columns = None
        /\ cache = Some(Unavailable)
        /\ pc \in {"check", "stopped"}
        /\ pc = "stopped" => screen.error
        /\ ~screen.form /\ ~screen.exception
        /\ form = None /\ raw_input = None /\ input_df = None
        /\ scaled_input = None /\ prediction = None /\ probability = None
        /\ screen.finding = None /\ screen.gauge = None

\* Only columns.pkl is missing: the loader opened all three files and the run
\* stopped behind the error.
C3_Witness ==
    /\ pc = "stopped"
    /\ screen.error
    /\ files_read = Files
    /\ disk.present = {Files[1], Files[2]}
    /\ model = None

---------------------------------------------------------------------------
(* C4 *)

ResultShown ==
    screen.finding # None \/ screen.probability_text # None \/ screen.gauge # None

\* C4: a result is on the screen only when encode, scaler.transform,
\* model.predict and model.predict_proba have all returned, each after the
\* one before it; an exception in any of them ends the run with the exception
\* on the screen and no part of the result.
C4_NoPartialResult ==
    /\ ResultShown =>
          /\ input_df # None /\ scaled_input # None
          /\ prediction # None /\ probability # None
          /\ screen.finding # None /\ screen.probability_text # None
          /\ screen.gauge # None
          /\ ~screen.exception
    /\ scaled_input # None => input_df # None
    /\ prediction # None => scaled_input # None
    /\ probability # None => prediction # None
    /\ pc = "failed" <=> screen.exception
    /\ pc = "scaled" => scaled_input # None
    /\ pc = "predicted" => prediction # None
    /\ pc = "scored" => probability # None

\* predict returned and predict_proba raised: the exception is shown and
\* nothing of the result.
C4_Witness ==
    /\ pc = "failed"
    /\ screen.exception
    /\ prediction # None
    /\ probability = None
    /\ ~ResultShown

---------------------------------------------------------------------------
(* C5 *)

\* C5: once the cache holds load_assets' result it never changes, and every
\* later call reads no file and returns the cached objects (or the cached
\* three Nones).
C5_ReadOnce ==
    [][cache # None =>
          /\ cache' = cache
          /\ (pc = "start" /\ pc' = "check") =>
                /\ files_read' = <<>>
                /\ model' = cache[1].model
                /\ scaler' = cache[1].scaler
                /\ expected_columns' = cache[1].expected_columns]_vars

\* A later call returned the cached result without opening a file although
\* the disk would now give another result.
C5_Witness ==
    /\ pc = "check"
    /\ files_read = <<>>
    /\ cache # None
    /\ load_assets(disk) # cache[1]
    /\ model = cache[1].model

---------------------------------------------------------------------------
(* C6 *)

\* C6: every column of the encoded row holds the form's value when it is a
\* numeric field, 1 when it is the indicator of a selected category and 0
\* otherwise; for the scenario form that is Age=40, RestingBP=120,
\* Cholesterol=200, FastingBS=0, MaxHR=150, Oldpeak=1.0, the five selected
\* indicators 1 and every other expected column 0.
C6_EncodedValues ==
    Encoded =>
        /\ \A i \in 1..Len(Columns) : Values[i] = ExpectedValue(form[1], Columns[i])
        /\ form[1] = ScenarioForm =>
              \A i \in 1..Len(Columns) : Values[i] = ScenarioValue(Columns[i])

\* The scenario form encoded against the full schema.
C6_Witness ==
    /\ Encoded
    /\ form[1] = ScenarioForm
    /\ expected_columns[1] = Cols(1)
    /\ Values = <<40, 120, 200, 0, 150, 10, 0, 1, 0, 1, 0, 0, 0, 1, 0, 1, 0, 0, 0, 1>>

---------------------------------------------------------------------------
(* C7 *)

\* C7: when the keys of raw_input are not exactly the expected columns in
\* their order, scoring fails: no label, no probability, no result.
C7_KeyMismatchFailsScoring ==
    (raw_input # None /\ Keys(raw_input[1]) # expected_columns[1]) =>
        /\ prediction = None
        /\ probability = None
        /\ ~ResultShown

---------------------------------------------------------------------------
(* C8 *)

\* C8: encoding never raises; when the indicator name built for a field is
\* no expected column, the row still has exactly the expected columns and
\* every indicator column of that field is 0.
C8_UnknownCategoryDropped ==
    raw_input # None =>
        /\ Encoded
        /\ \A k \in 1..Len(OneHotFields) :
              SelectedColumn(OneHotFields[k], form[1]) \notin Range(expected_columns[1]) =>
                  /\ Columns = expected_columns[1]
                  /\ HasKey(raw_input[1], SelectedColumn(OneHotFields[k], form[1]))
                  /\ \A i \in Positions(FieldColumns(OneHotFields[k])) : Values[i] = 0

\* Sex_F is no expected column, the row's only Sex column is 0, and scoring
\* went on to display a result.
C8_Witness ==
    /\ pc = "done"
    /\ ResultShown
    /\ expected_columns = Some(Cols(2))
    /\ form[1].sex = "F"
    /\ Positions(FieldColumns(OneHotFields[1])) # {}
    /\ \A i \in Positions(FieldColumns(OneHotFields[1])) : Values[i] = 0

---------------------------------------------------------------------------
(* C9 *)

---------------------------------------------------------------------------
(* C10 *)

\* C10: the finding shown is "High Risk" exactly when the label is 1 and
\* "Low Risk" for every other label, whatever the probability.
C10_FindingByLabel ==
    screen.finding # None =>
        /\ screen.finding[1] \in {"High Risk", "Low Risk"}
        /\ screen.finding[1] = "High Risk" <=> prediction[1] = 1

\* "High Risk" is shown beside a gauge in the green half.
C10_Witness ==
    /\ screen.finding = Some("High Risk")
    /\ screen.gauge = Some("green")
    /\ prediction = Some(1)

====
